---- MODULE Spec2Model ----
(***************************************************************************)
(* Maele a Basotho: the proverb store behind app/Proverbs_app.py (the      *)
(* Streamlit admin interface and keyword search) and                       *)
(* upload_json_to_firestore.py (the bulk importer).                        *)
(*                                                                         *)
(* A Python str is a sequence of one-character strings, so that strip(),   *)
(* lower(), split() and the substring test are computed, not assumed.      *)
(***************************************************************************)
EXTENDS Naturals, Sequences, FiniteSets

\* ------------------------------------------------------------------ bounds
\* number of document ids the Firestore collection can hand out
MaxDocs == 2
\* longest JSON batch of one importer run
MaxBatch == 3
\* longest list handed to search_proverbs
MaxList == 3
\* script runs of the two-session specification
MaxRuns == 3

\* ----------------------------------------------------------------- strings
Strings(A, n) == UNION {[1..k -> A] : k \in 0..n}

\* Python's None, for a field a document does not hold
None == <<"<None>">>

\* `x or ""`
OrEmpty(v) == IF v = None THEN <<>> ELSE v

\* str.isspace() of one character
IsSpace(c) == c \in {" ", "\t"}

\* str.lower() of one character
LowerChar(c) ==
    CASE c = "K" -> "k"
      [] c = "T" -> "t"
      [] c = "M" -> "m"
      [] c = "W" -> "w"
      [] c = "U" -> "u"
      [] OTHER -> c

\* str.lower()
Lower(s) == [i \in 1..Len(s) |-> LowerChar(s[i])]

RECURSIVE LStrip(_)
LStrip(s) == IF s # <<>> /\ IsSpace(Head(s)) THEN LStrip(Tail(s)) ELSE s

RECURSIVE RStrip(_)
RStrip(s) ==
    IF s # <<>> /\ IsSpace(s[Len(s)]) THEN RStrip(SubSeq(s, 1, Len(s) - 1)) ELSE s

\* str.strip()
Strip(s) == RStrip(LStrip(s))

RECURSIVE SplitFrom(_, _, _)
SplitFrom(s, word, acc) ==
    IF s = <<>>
    THEN IF word = <<>> THEN acc ELSE Append(acc, word)
    ELSE IF IsSpace(Head(s))
         THEN SplitFrom(Tail(s), <<>>, IF word = <<>> THEN acc ELSE Append(acc, word))
         ELSE SplitFrom(Tail(s), Append(word, Head(s)), acc)

\* str.split() with no argument: the runs of non-whitespace characters
Split(s) == SplitFrom(s, <<>>, <<>>)

\* `k in text` on two str
Contains(k, s) == \E i \in 1..(Len(s) + 1) : i + Len(k) - 1 <= Len(s) /\ SubSeq(s, i, i + Len(k) - 1) = k

\* the literal "Uncategorized"
Uncategorized == <<"U", "n", "c", "a", "t", "e", "g", "o", "r", "i", "z", "e", "d">>

\* (a slip: the tokens kept in the case they were typed in)
KeywordsNotLowered(text) == Split(text)

\* [w.lower() for w in text.split()]
Keywords(text) == [i \in 1..Len(Split(text)) |-> Lower(Split(text)[i])]

\* (a slip: the category kept as typed when it is not blank)
CategoryRawKept(category) == IF Strip(category) = <<>> THEN Uncategorized ELSE category

\* `category.strip() or "Uncategorized"`
CategoryOrDefault(category) == IF Strip(category) = <<>> THEN Uncategorized ELSE Strip(category)

\* (p.get("text") or "").strip().lower()
Norm(text) == Lower(Strip(OrEmpty(text)))

\* ------------------------------------------------------------------ inputs
\* what an admin types into "Proverb (Sesotho):" / "Proverb:", and the "text" of
\* a JSON candidate: blank, whitespace only, a word, the same word in the other
\* case and padded, two words with a double space between them
TextInputs ==
    {<<>>, <<" ">>, <<"K">>, <<" ", "k", " ">>, <<"K", " ", " ", "T">>}

\* the other fields of one filled-in form: meaning, translation, category
FormInputs ==
    {[meaning |-> <<" ">>, translation |-> <<>>, category |-> <<>>],
     [meaning |-> <<"m">>, translation |-> <<" ">>, category |-> <<" ">>],
     [meaning |-> <<" ", "M", " ">>, translation |-> <<"t", " ">>, category |-> <<" ", "W", " ">>]}

\* the other fields of one JSON object; a missing key reads as ""
JsonInputs ==
    {[meaning |-> <<>>, translation |-> <<>>, category |-> <<>>],
     [meaning |-> <<" ", "M", " ">>, translation |-> <<"t", " ">>, category |-> <<" ", "W", " ">>]}

DocIds == 1..MaxDocs
Sessions == {"s1", "s2"}

VARIABLES
    store,      \* the Firestore collection "proverbs": document id -> fields
    used,       \* the document ids the collection has handed out
    pc,         \* per session: "idle" between script runs, "loaded" after line 128
    proverbs,   \* per session: the list load_proverbs() returned to this run
    load_error, \* per session: load_proverbs() of the latest run caught an exception
    last,       \* the most recent handler: its button, the proverb selected, the text
                \* typed, and what it answered
    imp,        \* the importer process: pc, existing, candidates left, added_count
    seen,       \* the JSON candidates the importer run has gone through, in order
    runs,       \* script runs started so far (counted where a specification caps them)
    query       \* one call of search_proverbs: its arguments and its result

vars == <<store, used, pc, proverbs, load_error, last, imp, seen, runs, query>>

NoLast == [op |-> "none", res |-> "none", session |-> "none", id |-> 0, sel |-> <<>>, text |-> <<>>]

EmptyStore == [id \in {} |-> NoLast]

ImpIdle == [pc |-> "idle", existing |-> {}, todo |-> 0, added_count |-> 0]

NoQuery == [proverbs |-> <<>>, keyword |-> <<>>, search_in_meaning |-> FALSE,
            matches |-> <<>>, pc |-> "none"]

Init ==
    /\ store = EmptyStore
    /\ used = {}
    /\ pc = [s \in Sessions |-> "idle"]
    /\ proverbs = [s \in Sessions |-> <<>>]
    /\ load_error = [s \in Sessions |-> FALSE]
    /\ last = NoLast
    /\ imp = ImpIdle
    /\ seen = <<>>
    /\ runs = 0
    /\ query = NoQuery

\* ------------------------------------------------------- Firestore helpers
RECURSIVE Ascending(_)
Ascending(S) ==
    IF S = {} THEN <<>>
    ELSE LET m == CHOOSE x \in S : \A y \in S : x <= y
         IN <<m>> \o Ascending(S \ {m})

\* proverbs_ref.stream(): the documents in document-id order, each with its id
Stream(st) ==
    LET ids == Ascending(DOMAIN st)
    IN [i \in 1..Len(ids) |->
          [id |-> ids[i], text |-> st[ids[i]].text, meaning |-> st[ids[i]].meaning,
           translation |-> st[ids[i]].translation, category |-> st[ids[i]].category,
           keywords |-> st[ids[i]].keywords]]

\* the auto-assigned id of proverbs_ref.add: one never handed out before. Ids are
\* opaque; the model hands them out in ascending order, so stream() lists the
\* documents in the order they were created
FreshIds(u) == {id \in DocIds \ u : \A other \in DocIds \ u : id <= other}

\* proverbs_ref.add(doc): a new document under a fresh id
StoreAdd(st, id, doc) == [i \in DOMAIN st \cup {id} |-> IF i = id THEN doc ELSE st[i]]

\* proverbs_ref.document(doc_id).set(data): full overwrite, created when absent
StoreSet(st, id, data) == [i \in DOMAIN st \cup {id} |-> IF i = id THEN data ELSE st[i]]

\* proverbs_ref.document(doc_id).delete()
StoreDelete(st, id) == [i \in DOMAIN st \ {id} |-> st[i]]

\* add_proverb_doc (lines 69-74): an exception of the store is caught and shown
add_proverb_doc(st, id, doc, ok) == IF ok THEN StoreAdd(st, id, doc) ELSE st

\* update_proverb_doc (lines 76-81)
update_proverb_doc(st, doc_id, data, ok) == IF ok THEN StoreSet(st, doc_id, data) ELSE st

\* delete_proverb_doc (lines 83-88)
delete_proverb_doc(st, doc_id, ok) == IF ok THEN StoreDelete(st, doc_id) ELSE st

\* load_proverbs(): the script's line 128; an exception is caught and [] returned
load_proverbs(s, ok) ==
    /\ pc[s] = "idle"
    /\ pc' = [pc EXCEPT ![s] = "loaded"]
    /\ proverbs' = [proverbs EXCEPT ![s] = IF ok THEN Stream(store) ELSE <<>>]
    /\ load_error' = [load_error EXCEPT ![s] = ~ok]
    /\ UNCHANGED <<store, used, last, imp, seen, query>>

\* ------------------------------------------------------------ Add Proverb
\* the document of lines 221-227
AddDoc(new_text, new_meaning, new_translation, new_category) ==
    [text |-> Strip(new_text),
     meaning |-> Strip(new_meaning),
     translation |-> Strip(new_translation),
     category |-> CategoryOrDefault(new_category),
     keywords |-> Keywords(new_text)]

\* existing_texts of line 215
existing_texts(plist) == {Norm(plist[i].text) : i \in 1..Len(plist)}

\* (a slip: the duplicate check comparing the texts as typed, case and all)
AddBranchCaseSensitive(plist, new_text, new_meaning) ==
    IF Strip(new_text) = <<>> \/ Strip(new_meaning) = <<>> THEN "required"
    ELSE IF Strip(new_text) \in {Strip(OrEmpty(plist[i].text)) : i \in 1..Len(plist)} THEN "duplicate"
    ELSE "accept"

\* the branch the handler takes (lines 216-220)
AddBranch(plist, new_text, new_meaning) ==
    IF Strip(new_text) = <<>> \/ Strip(new_meaning) = <<>> THEN "required"
    ELSE IF Lower(Strip(new_text)) \in existing_texts(plist) THEN "duplicate"
    ELSE "accept"

Answer(op, res, s, id, sel, text) ==
    [op |-> op, res |-> res, session |-> s, id |-> id, sel |-> sel, text |-> text]

\* the "Add Proverb" button (lines 213-230); ok: proverbs_ref.add did not raise
\* (a rejected add makes no store call, so there ok is TRUE)
AddProverb(s, new_text, new_meaning, new_translation, new_category, ok) ==
    /\ pc[s] = "loaded"
    /\ pc' = [pc EXCEPT ![s] = "idle"]
    /\ proverbs' = [proverbs EXCEPT ![s] = <<>>]
    /\ UNCHANGED <<load_error, imp, seen, runs, query>>
    /\ LET branch == AddBranch(proverbs[s], new_text, new_meaning)
       IN IF branch # "accept"
          THEN /\ ok
               /\ last' = Answer("add", branch, s, 0, <<>>, new_text)
               /\ UNCHANGED <<store, used>>
          ELSE IF ~ok
          THEN /\ store' = add_proverb_doc(store, 0, AddDoc(new_text, new_meaning, new_translation, new_category), FALSE)
               /\ last' = Answer("add", "store_error", s, 0, <<>>, new_text)
               /\ UNCHANGED used
          ELSE \E id \in FreshIds(used) :
               /\ store' = add_proverb_doc(store, id, AddDoc(new_text, new_meaning, new_translation, new_category), TRUE)
               /\ used' = used \cup {id}
               /\ last' = Answer("add", "added", s, id, <<>>, new_text)

\* ---------------------------------------------------------- Edit / Delete
\* selected of line 238: the first listed proverb whose text is the chosen one
Selectable(plist) ==
    {i \in 1..Len(plist) : \A j \in 1..(i - 1) : OrEmpty(plist[j].text) # OrEmpty(plist[i].text)}

\* the document of lines 252-258
UpdatedDoc(edit_text, edit_meaning, edit_translation, edit_category) ==
    [text |-> Strip(edit_text),
     meaning |-> Strip(edit_meaning),
     translation |-> Strip(edit_translation),
     category |-> CategoryOrDefault(edit_category),
     keywords |-> Keywords(edit_text)]

\* (a slip: the edited proverb itself left in the comparison)
other_texts_all(plist, selected) == {Norm(plist[i].text) : i \in 1..Len(plist)}

\* other_texts of line 248
other_texts(plist, selected) ==
    {Norm(plist[i].text) : i \in {j \in 1..Len(plist) : plist[j].id # selected.id}}

\* the branch the handler takes (lines 249-251)
SaveBranch(plist, selected, edit_text) ==
    IF Lower(Strip(edit_text)) \in other_texts(plist, selected) THEN "duplicate" ELSE "accept"

\* the "Save Changes" button (lines 246-261); ok: set() did not raise
SaveChanges(s, i, edit_text, edit_meaning, edit_translation, edit_category, ok) ==
    /\ pc[s] = "loaded"
    /\ i \in Selectable(proverbs[s])
    /\ pc' = [pc EXCEPT ![s] = "idle"]
    /\ proverbs' = [proverbs EXCEPT ![s] = <<>>]
    /\ UNCHANGED <<load_error, used, imp, seen, runs, query>>
    /\ LET selected == proverbs[s][i]
           branch == SaveBranch(proverbs[s], selected, edit_text)
       IN IF branch # "accept"
          THEN /\ ok
               /\ last' = Answer("save", branch, s, selected.id, OrEmpty(selected.text), edit_text)
               /\ UNCHANGED store
          ELSE /\ store' = update_proverb_doc(store, selected.id,
                                               UpdatedDoc(edit_text, edit_meaning, edit_translation, edit_category), ok)
               /\ last' = Answer("save", IF ok THEN "updated" ELSE "store_error", s, selected.id,
                                 OrEmpty(selected.text), edit_text)

\* the "Delete Proverb" button (lines 263-266); ok: delete() did not raise
DeleteProverb(s, i, ok) ==
    /\ pc[s] = "loaded"
    /\ i \in Selectable(proverbs[s])
    /\ pc' = [pc EXCEPT ![s] = "idle"]
    /\ proverbs' = [proverbs EXCEPT ![s] = <<>>]
    /\ UNCHANGED <<load_error, used, imp, seen, runs, query>>
    /\ LET selected == proverbs[s][i]
       IN /\ store' = delete_proverb_doc(store, selected.id, ok)
          /\ last' = Answer("delete", IF ok THEN "deleted" ELSE "store_error", s, selected.id,
                            OrEmpty(selected.text), <<>>)

\* ------------------------------------------------------ one admin session
LoadOk(s) == load_proverbs(s, TRUE) /\ UNCHANGED runs

LoadFails(s) == load_proverbs(s, FALSE) /\ UNCHANGED runs

Add(s) ==
    \E new_text \in TextInputs, f \in FormInputs, ok \in BOOLEAN :
        AddProverb(s, new_text, f.meaning, f.translation, f.category, ok)

Save(s) ==
    \E i \in 1..MaxDocs, edit_text \in TextInputs, f \in FormInputs, ok \in BOOLEAN :
        SaveChanges(s, i, edit_text, f.meaning, f.translation, f.category, ok)

Delete(s) ==
    \E i \in 1..MaxDocs, ok \in BOOLEAN : DeleteProverb(s, i, ok)

\* ------------------------------------------------------- bulk importer
\* one object of data/proverbs.json: its optional string fields
Candidates ==
    {[text |-> t, meaning |-> f.meaning, translation |-> f.translation, category |-> f.category] :
        t \in TextInputs \cup {None}, f \in JsonInputs}

\* existing of lines 34-37: the normalized texts in the store when the run starts
\* (the ids the dict maps them to are never read)
Existing(st) == {Norm(st[id].text) : id \in DOMAIN st}

\* data of lines 50-56; text is the stripped text of line 42
ImportData(text, p) ==
    [text |-> text,
     meaning |-> Strip(p.meaning),
     translation |-> Strip(p.translation),
     category |-> CategoryOrDefault(p.category),
     keywords |-> Keywords(text)]

\* lines 29-39: the script starts, reads the JSON list and the existing texts
ImportStart(n) ==
    /\ imp.pc = "idle"
    /\ \A s \in Sessions : pc[s] = "idle"
    /\ imp' = [pc |-> "loop", existing |-> Existing(store), todo |-> n, added_count |-> 0]
    /\ last' = Answer("import", "started", "importer", 0, <<>>, <<>>)
    /\ UNCHANGED <<store, used, pc, proverbs, load_error, runs, query>>

\* lines 41-59, one turn of the loop on candidate p; ok: proverbs_ref.add did not
\* raise (a skipped candidate makes no store call, so there ok is TRUE). Nothing
\* catches the exception: the process ends with a traceback
ImportStep(p, ok) ==
    /\ imp.pc = "loop"
    /\ imp.todo > 0
    /\ UNCHANGED <<pc, proverbs, load_error, last, runs, query>>
    /\ LET text == Strip(OrEmpty(p.text))
           key == Lower(text)
       IN IF text = <<>>
          THEN /\ ok
               /\ imp' = [imp EXCEPT !.todo = @ - 1]
               /\ UNCHANGED <<store, used>>
          ELSE IF key \in imp.existing
          THEN /\ ok
               /\ imp' = [imp EXCEPT !.todo = @ - 1]
               /\ UNCHANGED <<store, used>>
          ELSE \E id \in FreshIds(used) :
               IF ok
               THEN /\ store' = StoreAdd(store, id, ImportData(text, p))
                    /\ used' = used \cup {id}
                    /\ imp' = [imp EXCEPT !.todo = @ - 1, !.added_count = @ + 1]
               ELSE /\ imp' = [imp EXCEPT !.pc = "aborted"]
                         /\ UNCHANGED <<store, used>>

\* line 61: the loop is over, the count is printed
ImportReport ==
    /\ imp.pc = "loop"
    /\ imp.todo = 0
    /\ imp' = [imp EXCEPT !.pc = "reported"]
    /\ UNCHANGED <<store, used, pc, proverbs, load_error, last, seen, runs, query>>

\* the process is gone; the script can be run again
ImportExit ==
    /\ imp.pc \in {"reported", "aborted"}
    /\ imp' = ImpIdle
    /\ UNCHANGED <<store, used, pc, proverbs, load_error, last, seen, runs, query>>

Begin == \E n \in 0..MaxBatch : ImportStart(n) /\ UNCHANGED seen

Step == \E p \in Candidates, ok \in BOOLEAN : ImportStep(p, ok) /\ UNCHANGED seen

\* the same two steps, the candidates gone through remembered in seen
BeginSeen == \E n \in 0..MaxBatch : ImportStart(n) /\ seen' = <<>>

StepSeen == \E p \in Candidates, ok \in BOOLEAN : ImportStep(p, ok) /\ seen' = Append(seen, p)

\* --------------------------------------------------------- keyword search
RECURSIVE SearchLoop(_, _, _, _)
SearchLoop(ps, k, search_in_meaning, results) ==
    IF ps = <<>> THEN results
    ELSE LET p == Head(ps)
             text == Lower(OrEmpty(p.text))
             meaning == Lower(OrEmpty(p.meaning))
         IN SearchLoop(Tail(ps), k, search_in_meaning,
                       IF Contains(k, text) \/ (search_in_meaning /\ Contains(k, meaning))
                       THEN Append(results, p) ELSE results)

\* (a slip: the meanings searched whatever the flag says)
search_proverbs_any_meaning(ps, keyword, search_in_meaning) ==
    LET k == Strip(Lower(keyword))
    IN IF k = <<>> THEN <<>> ELSE SearchLoop(ps, k, TRUE, <<>>)

\* search_proverbs (lines 93-104)
search_proverbs(ps, keyword, search_in_meaning) ==
    LET k == Strip(Lower(keyword))
    IN IF k = <<>> THEN <<>> ELSE SearchLoop(ps, k, search_in_meaning, <<>>)

SearchRecords ==
    [text : {None, <<"K">>, <<"t", "k">>}, meaning : {None, <<"T">>}]

SearchKeywords == {<<>>, <<" ">>, <<"K", " ">>, <<"t">>, <<"k", "t">>}

InitSearch ==
    /\ store = EmptyStore
    /\ used = {}
    /\ pc = [s \in Sessions |-> "idle"]
    /\ proverbs = [s \in Sessions |-> <<>>]
    /\ load_error = [s \in Sessions |-> FALSE]
    /\ last = NoLast
    /\ imp = ImpIdle
    /\ seen = <<>>
    /\ runs = 0
    /\ query \in [proverbs : Strings(SearchRecords, MaxList), keyword : SearchKeywords,
                  search_in_meaning : BOOLEAN, matches : {<<>>}, pc : {"call"}]

Search ==
    /\ query.pc = "call"
    /\ query' = [query EXCEPT !.matches = search_proverbs(query.proverbs, query.keyword,
                                                          query.search_in_meaning),
                              !.pc = "returned"]
    /\ UNCHANGED <<store, used, pc, proverbs, load_error, last, imp, seen, runs>>

\* -------------------------------------------------------- specifications
\* a single admin session whose reads succeed
NextAdmin == LoadOk("s1") \/ Add("s1") \/ Save("s1") \/ Delete("s1")

SpecAdmin == Init /\ [][NextAdmin]_vars

\* a single admin session whose reads may fail
NextReadFail == LoadOk("s1") \/ LoadFails("s1") \/ Add("s1") \/ Save("s1") \/ Delete("s1")

SpecReadFail == Init /\ [][NextReadFail]_vars

\* two admin sessions, each run reading first and writing later; MaxRuns script
\* runs in all
LoadCounted(s) == runs < MaxRuns /\ load_proverbs(s, TRUE) /\ runs' = runs + 1

NextTwo ==
    \/ LoadCounted("s1") \/ Add("s1") \/ Save("s1") \/ Delete("s1")
    \/ LoadCounted("s2") \/ Add("s2") \/ Save("s2") \/ Delete("s2")

SpecTwo == Init /\ [][NextTwo]_vars

\* one importer run on the empty store, its candidates remembered
NextImport == BeginSeen \/ StepSeen \/ ImportReport

SpecImport == Init /\ [][NextImport]_vars

\* every writer: the admin session (its reads succeeding) and importer runs, one
\* after the other
AdminLoad == imp.pc = "idle" /\ LoadOk("s1")

Next ==
    \/ AdminLoad \/ Add("s1") \/ Save("s1") \/ Delete("s1")
    \/ Begin \/ Step \/ ImportReport \/ ImportExit

Spec == Init /\ [][Next]_vars

\* one call of search_proverbs on every list, keyword and flag of the bounds
SpecSearch == InitSearch /\ [][Search]_vars

\* ------------------------------------------------------------ properties
\* the documents of st have pairwise distinct normalized text (trim + lowercase)
DistinctNormalizedTexts(st) ==
    \A a \in DOMAIN st, b \in DOMAIN st : a # b => Norm(st[a].text) # Norm(st[b].text)

\* the whitespace-separated tokens of s, as index ranges: the maximal runs of
\* characters that are not whitespace
Runs(s) ==
    {r \in (1..Len(s)) \X (1..Len(s)) :
        /\ r[1] <= r[2]
        /\ \A i \in r[1]..r[2] : ~IsSpace(s[i])
        /\ r[1] = 1 \/ IsSpace(s[r[1] - 1])
        /\ r[2] = Len(s) \/ IsSpace(s[r[2] + 1])}

\* kw is the sequence of the lowercased tokens of s, in order
TokensOf(s, kw) ==
    /\ Len(kw) = Cardinality(Runs(s))
    /\ \A j \in 1..Len(kw) :
        \E r \in Runs(s) :
            /\ Cardinality({q \in Runs(s) : q[1] < r[1]}) = j - 1
            /\ kw[j] = Lower(SubSeq(s, r[1], r[2]))

\* t is c without its leading and trailing whitespace
TrimmedOf(c, t) ==
    \E a \in 1..(Len(c) + 1), b \in 0..Len(c) :
        /\ t = SubSeq(c, a, b)
        /\ \A i \in 1..Len(c) : (i < a \/ i > b) => IsSpace(c[i])
        /\ t # <<>> => ~IsSpace(t[1]) /\ ~IsSpace(t[Len(t)])
        /\ t = <<>> => a = b + 1

\* C1: starting from a store of pairwise distinct normalized texts, after any
\* sequence of Add Proverb, Save Changes and Delete Proverb of one session, each
\* run reading the store afresh, no two stored records share a normalized text.
C1_UniqueNormalizedText == DistinctNormalizedTexts(store)

\* "K" is stored and the add of " k " has been rejected as a duplicate
C1_PaddedLowercaseAddRejected ==
    /\ last.op = "add" /\ last.res = "duplicate"
    /\ last.text = <<" ", "k", " ">>
    /\ \E id \in DOMAIN store : store[id].text = <<"K">>

\* C2: an importer run against an empty store skips the candidates whose text is
\* blank and admits at most one record per distinct normalized text; the reported
\* count is the number of records inserted; the batch [word, "", the same word in
\* the other case] ends with one record and a count of 1.
C2_ImportAdmitsOnePerText ==
    (imp.pc = "reported" /\ imp.existing = {}) =>
        /\ \A id \in DOMAIN store : store[id].text # <<>>
        /\ DistinctNormalizedTexts(store)
        /\ imp.added_count = Cardinality(DOMAIN store)
        /\ imp.added_count = Cardinality({Norm(seen[i].text) : i \in 1..Len(seen)} \ {<<>>})
        /\ [i \in 1..Len(seen) |-> seen[i].text] = << <<"K">>, <<>>, <<" ", "k", " ">> >>
             => imp.added_count = 1

\* C3: every record written by an admin add, an admin edit or the importer has
\* keywords equal to the lowercased whitespace-separated tokens of its stored
\* text, which are also the lowercased tokens of the text as it was typed.
C3_KeywordsAreTokensOfText ==
    /\ \A id \in DOMAIN store : TokensOf(store[id].text, store[id].keywords)
    /\ (last.res \in {"added", "updated"} /\ last.id \in DOMAIN store) =>
           TokensOf(last.text, store[last.id].keywords)

\* a padded text has just been written, and a two-word text is stored
C3_PaddedTextWritten ==
    /\ last.res \in {"added", "updated"}
    /\ last.text # Strip(last.text)
    /\ last.id \in DOMAIN store
    /\ store[last.id].keywords = << <<"k">> >>
    /\ \E id \in DOMAIN store : store[id].keywords = << <<"k">>, <<"t">> >>

\* C4: no record written by an admin add, an admin edit or the importer has an
\* empty category: every stored record is what some form or JSON object gives
\* when a blank category becomes "Uncategorized" and any other is trimmed.
C4_CategoryNeverEmpty ==
    \A id \in DOMAIN store :
        /\ store[id].category # <<>>
        /\ \E f \in FormInputs \cup JsonInputs :
            /\ TrimmedOf(f.meaning, store[id].meaning)
            /\ TrimmedOf(f.translation, store[id].translation)
            /\ IF \A i \in 1..Len(f.category) : IsSpace(f.category[i])
               THEN store[id].category = Uncategorized
               ELSE TrimmedOf(f.category, store[id].category)

\* one record holds the trimmed "W", another "Uncategorized" for a category of
\* one space
C4_TrimmedAndDefaultStored ==
    /\ \E id \in DOMAIN store : store[id].category = <<"W">>
    /\ \E id \in DOMAIN store : store[id].category = Uncategorized /\ store[id].meaning = <<"m">>

\* C5: every Add Proverb and Save Changes whose text or meaning is blank is
\* rejected and leaves the store unchanged, so no record of the admin interface
\* has an empty text or an empty meaning.
C5_AdminRejectsBlankFields ==
    /\ \A id \in DOMAIN store : store[id].text # <<>> /\ store[id].meaning # <<>>
    /\ (last.op \in {"add", "save"} /\ Strip(last.text) = <<>>) =>
           last.res \in {"required", "duplicate"}

\* C6: Save Changes on record r is rejected, the store unchanged, exactly when
\* another record has the normalized text typed; otherwise it is accepted and
\* set() overwrites r under its id with the trimmed text (nothing is written
\* when set() raises).
C6_EditChecksOthersOnly ==
    [][(pc["s1"] = "loaded" /\ pc'["s1"] = "idle" /\ last'.op = "save") =>
        LET id == last'.id
            clash == \E o \in DOMAIN store \ {id} : Norm(store[o].text) = Norm(last'.text)
        IN /\ id \in DOMAIN store
           /\ last'.sel = store[id].text
           /\ clash => last'.res = "duplicate"
           /\ ~clash => last'.res \in {"updated", "store_error"}
           /\ last'.res # "updated" => store' = store
           /\ last'.res = "updated" =>
                /\ DOMAIN store' = DOMAIN store
                /\ store'[id].text = Strip(last'.text)
                /\ \A o \in DOMAIN store \ {id} : store'[o] = store[o]]_vars

\* an edit that changed only the case and padding of its own text has been
\* written, beside another record
C6_OwnTextKept ==
    /\ last.op = "save" /\ last.res = "updated"
    /\ Norm(last.sel) = Norm(last.text) /\ last.sel # last.text
    /\ last.id \in DOMAIN store /\ store[last.id].text = Strip(last.text)
    /\ Cardinality(DOMAIN store) = 2

\* C7: a store failure on one admitted candidate does not stop the importer run:
\* the run goes on and reaches its report.
C7_ImportSurvivesStoreFailure == imp.pc # "aborted"

\* C8: search_proverbs returns [] for a blank keyword, and otherwise the proverbs,
\* in their order, whose text contains the trimmed lowercased keyword whatever
\* the case, or, when search_in_meaning is set, whose meaning does.
C8_SearchIsOrderedFilter ==
    query.pc = "returned" =>
        LET ps == query.proverbs
            kw == Lower(Strip(query.keyword))
            hits == {i \in 1..Len(ps) :
                        \/ Contains(kw, Lower(OrEmpty(ps[i].text)))
                        \/ query.search_in_meaning /\ Contains(kw, Lower(OrEmpty(ps[i].meaning)))}
        IN IF \A i \in 1..Len(query.keyword) : IsSpace(query.keyword[i])
           THEN query.matches = <<>>
           ELSE /\ Len(query.matches) = Cardinality(hits)
                /\ \A j \in 1..Len(query.matches) :
                    \E i \in hits :
                        /\ Cardinality({h \in hits : h < i}) = j - 1
                        /\ query.matches[j] = ps[i]

\* of three proverbs the first and the third matched, and came back in that order
C8_FirstAndThirdReturned ==
    /\ query.pc = "returned"
    /\ Len(query.proverbs) = 3
    /\ query.proverbs[1] # query.proverbs[3]
    /\ query.matches = <<query.proverbs[1], query.proverbs[3]>>
    /\ query.proverbs[2] # query.proverbs[1] /\ query.proverbs[2] # query.proverbs[3]

\* C9: no two stored records share a normalized text, also when two admin
\* sessions interleave their runs, each checking against the list it read.
C9_UniqueUnderTwoSessions ==
    \A a \in DOMAIN store : \A b \in DOMAIN store \ {a} :
        Lower(Strip(store[a].text)) # Lower(Strip(store[b].text))

\* C10: when the read at the start of a run failed, an Add Proverb of that run
\* persists no record whose normalized text is that of a record already stored.
C10_ReadFailureLetsNoDuplicateIn ==
    (last.op = "add" /\ last.res = "added" /\ load_error[last.session]) =>
        \A o \in DOMAIN store \ {last.id} : Norm(store[o].text) # Norm(store[last.id].text)

====
